---------------------------- MODULE Spec2Model ----------------------------
(***************************************************************************)
(* Request dispatch and planning views of the Todoist MCP server.          *)
(*                                                                         *)
(* Two programs of the repository are modelled:                            *)
(*   - class TodoistMCPServer (src/unnamed/part_003, the src/index.ts      *)
(*     listing): tool, resource and prompt request handlers over the       *)
(*     remote client todoistClient;                                        *)
(*   - the McpServer tool of src/src/server.ts                             *)
(*     (todoist_get_tasks_by_filter).                                      *)
(*                                                                         *)
(* A text is a sequence of lines and a line is a sequence of string parts  *)
(* (the literal and the interpolated pieces of a template literal), so     *)
(* "the text names the filter" is "the filter is a part of a line".        *)
(* The non-ASCII glyphs of the literals (bullets, check marks, emoji) are   *)
(* left out or written in ASCII.                                           *)
(***************************************************************************)
EXTENDS Naturals, Sequences, FiniteSets

----------------------------------------------------------------------------
(* Bounds of the model *)

\* longest task list a single-query handler receives from the remote client
MaxTasks == 3
\* longest task list each of the two daily-view queries receives
MaxDaily == 2
\* longest project list
MaxProjects == 2

----------------------------------------------------------------------------
(* Generic helpers *)

Range(s) == { s[i] : i \in 1..Len(s) }

\* the sequences over S of length at most n
SeqUpTo(S, n) == UNION { [1..k -> S] : k \in 0..n }

\* args restricted to the keys ks (object rest / pick)
Restrict(f, ks) == [k \in ks |-> f[k]]

\* concatenation of a sequence of texts (each a sequence of lines)
RECURSIVE Concat(_)
Concat(ts) == IF ts = <<>> THEN <<>> ELSE Head(ts) \o Concat(Tail(ts))

\* texts.join(sep) on whole-line texts: sep is the lines put between two texts
\* ("\n" puts nothing between, "\n\n" puts one empty line)
RECURSIVE JoinLines(_, _)
JoinLines(ts, sep) ==
    IF ts = <<>> THEN <<>>
    ELSE IF Len(ts) = 1 THEN Head(ts)
    ELSE Head(ts) \o sep \o JoinLines(Tail(ts), sep)

\* Number to string conversion of a template literal, for the small counts
\* the model reaches
ToString(n) ==
    CASE n = 0 -> "0" [] n = 1 -> "1" [] n = 2 -> "2" [] n = 3 -> "3"
      [] n = 4 -> "4" [] n = 5 -> "5" [] n = 6 -> "6" [] n = 7 -> "7"
      [] n = 8 -> "8" [] n = 9 -> "9" [] OTHER -> "many"

----------------------------------------------------------------------------
(* The remote service's data *)

DateKeys == { "2024-04-30", "2024-05-01", "2024-05-02" }

\* UTF-16 code units of a date key, the order Array.prototype.sort compares by
CodeUnits(d) ==
    CASE d = "2024-04-30" -> <<50, 48, 50, 52, 45, 48, 52, 45, 51, 48>>
      [] d = "2024-05-01" -> <<50, 48, 50, 52, 45, 48, 53, 45, 48, 49>>
      [] d = "2024-05-02" -> <<50, 48, 50, 52, 45, 48, 53, 45, 48, 50>>

\* weekday name of a date key (toLocaleDateString("en-US", {weekday: "long"}))
DayName(d) ==
    CASE d = "2024-04-30" -> "Tuesday"
      [] d = "2024-05-01" -> "Wednesday"
      [] d = "2024-05-02" -> "Thursday"

TaskA == [ id |-> "1", content |-> "A", priority |-> 4, url |-> "u1",
           description |-> "details", labels |-> <<"work", "home">>,
           projectId |-> "P1",
           due |-> [ date |-> "2024-05-02", string |-> "May 2" ] ]
TaskB == [ id |-> "2", content |-> "B", priority |-> 3, url |-> "u2",
           labels |-> <<>>,
           due |-> [ date |-> "2024-05-01", string |-> "May 1" ] ]
TaskC == [ id |-> "3", content |-> "C", priority |-> 2, url |-> "u3",
           description |-> "", labels |-> <<"work">> ]
TaskD == [ id |-> "4", content |-> "D", priority |-> 1, url |-> "u4",
           due |-> [ date |-> "2024-04-30", string |-> "Apr 30" ] ]
TaskE == [ id |-> "5", content |-> "E", priority |-> 4, url |-> "u5",
           labels |-> <<>>, projectId |-> "P2",
           due |-> [ date |-> "2024-05-02", string |-> "May 2" ] ]

\* the tasks the remote service may return (priority always in 1..4)
Tasks == { TaskA, TaskB, TaskC, TaskD, TaskE }

Projects == { [ id |-> "P1", name |-> "Inbox", isShared |-> FALSE ],
              [ id |-> "P2", name |-> "Team", isShared |-> TRUE ] }

\* messages of the failures the remote client raises
Messages == { <<"HTTP 401">>, <<"network timeout">> }

\* JS truthiness of an optional string field: present and not empty
Truthy(o, k) == k \in DOMAIN o /\ o[k] # ""

----------------------------------------------------------------------------
(* Operation registry *)

\* the cases of the CallToolRequestSchema switch
ToolNames == { "todoist_add_task", "todoist_get_tasks",
               "todoist_get_tasks_by_filter", "todoist_update_task",
               "todoist_close_task", "todoist_reopen_task",
               "todoist_delete_task", "todoist_get_projects",
               "todoist_quick_add_task" }

\* names a client may send that no case of the switch matches (the names the
\* overview of the listing gives the create and complete tools)
UnknownToolNames == { "todoist_create_task", "todoist_complete_task" }

ResourceUris == { "todoist://planning/daily", "todoist://planning/weekly" }
UnknownUris == { "todoist://planning/monthly" }

PromptNames == { "daily_planner", "task_manager" }
UnknownPromptNames == { "weekly_planner" }

Filters == { "today", "p1 & overdue" }

\* the length limits of the filter string in the zod schema of server.ts
MinFilterLength == 1
MaxFilterLength == 1024

\* strings of 1024 and 1025 characters
Pad64 == "aaaaaaaaaaaaaaaaaaaaaaaaaaaaaaaaaaaaaaaaaaaaaaaaaaaaaaaaaaaaaaaa"
Pad256 == Pad64 \o Pad64 \o Pad64 \o Pad64
Filter1024 == Pad256 \o Pad256 \o Pad256 \o Pad256
Filter1025 == Filter1024 \o "a"

\* the filter strings a client may send: also the empty string and strings
\* at and above the length limit
ClientFilters == Filters \cup { "", Filter1024, Filter1025 }

\* z.string().min(1).max(1024) on the query argument of the server.ts tool
ServerSchema(args) ==
    /\ MinFilterLength <= Len(args.query)
    /\ Len(args.query) <= MaxFilterLength
TaskIds == { "X", "1" }

\* argument objects a client sends to update_task: task_id and any of two
\* of the optional fields
UpdateArgs ==
    { [task_id |-> i] : i \in TaskIds } \cup
    { [task_id |-> "X", content |-> "A2"],
      [task_id |-> "X", priority |-> 2],
      [task_id |-> "X", content |-> "A2", priority |-> 2] }

\* the schema-valid argument objects of each tool (the inputSchema of
\* todoist_get_tasks_by_filter asks for a string of any length)
ToolArgs(name) ==
    CASE name = "todoist_add_task" ->
            { [content |-> "A"], [content |-> "A", priority |-> 4] }
      [] name = "todoist_get_tasks" ->
            { [projectId |-> "P1"], [label |-> "work"] }
      [] name = "todoist_get_tasks_by_filter" ->
            { [filter |-> f] : f \in ClientFilters } \cup
            { [filter |-> "today", lang |-> "en"] }
      [] name = "todoist_update_task" -> UpdateArgs
      [] name \in { "todoist_close_task", "todoist_reopen_task",
                    "todoist_delete_task" } ->
            { [task_id |-> i] : i \in TaskIds }
      [] name = "todoist_quick_add_task" ->
            { [text |-> "Call mom tomorrow"] }
      [] OTHER -> { <<>> }

\* the argument objects of the server.ts tool that pass its schema: the
\* callback runs for no other
ServerToolArgs ==
    { a \in { [query |-> f] : f \in ClientFilters }
              \cup { [query |-> "today", lang |-> "en"] } : ServerSchema(a) }

\* the optional context argument of the task_manager prompt
PromptArgs(name) ==
    IF name = "task_manager"
    THEN { <<>>, [context |-> "focus on work"], [context |-> ""] }
    ELSE { <<>> }

\* the UTC calendar dates the clock may show when a view is rendered
Nows == { "2024-05-01", "2024-04-29" }

----------------------------------------------------------------------------
(* Outcomes of a handler and response envelopes *)

Return(v) == [threw |-> FALSE, value |-> v]
Throw(msg) == [threw |-> TRUE, error |-> msg]

\* { content: [{ type: "text", text }] }: isError is omitted
TextEnvelope(text) == [content |-> << [type |-> "text", text |-> text] >>]

\* { content: [{ type: "text", text }], isError: true }
ErrorEnvelope(text) ==
    [content |-> << [type |-> "text", text |-> text] >>, isError |-> TRUE]

IsError(env) == "isError" \in DOMAIN env /\ env.isError = TRUE

\* the remote call a handler issues
Call(op, params) == [op |-> op, params |-> params, status |-> "pending"]

----------------------------------------------------------------------------
(* Remote query facade: the tool implementations.  Each handler is its     *)
(* remote call (issued when the handler starts) and its continuation, run  *)
(* when the awaited promise aw has settled: a rejection is rethrown by the *)
(* await, a fulfilment is rendered.                                        *)

\* array.join(sep) inside one line: the parts with sep between them
RECURSIVE JoinParts(_, _)
JoinParts(xs, sep) ==
    IF xs = <<>> THEN <<>>
    ELSE IF Len(xs) = 1 THEN <<Head(xs)>>
    ELSE <<Head(xs), sep>> \o JoinParts(Tail(xs), sep)

formatTaskDetails(task) ==
    << <<"* ", task.content, " (ID: ", task.id, ")">> >>
    \o (IF Truthy(task, "description")
        THEN << <<"  Description: ", task.description>> >> ELSE <<>>)
    \o (IF "due" \in DOMAIN task
        THEN << <<"  Due: ", task.due.string>> >> ELSE <<>>)
    \o (IF task.priority > 1
        THEN << <<"  Priority: ", ToString(task.priority)>> >> ELSE <<>>)
    \o (IF "labels" \in DOMAIN task /\ Len(task.labels) > 0
        THEN << <<"  Labels: ">> \o JoinParts(task.labels, ", ") >> ELSE <<>>)
    \o (IF Truthy(task, "projectId")
        THEN << <<"  Project: ", task.projectId>> >> ELSE <<>>)

addTask(args, aw) ==
    IF aw.status = "rejected" THEN Throw(aw.reason)
    ELSE LET task == aw.value[1]
         IN Return(TextEnvelope(<< <<"Created task: \"", task.content, "\"">>,
                                   <<"ID: ", task.id>>,
                                   <<"URL: ", task.url>> >>))

getTasks(args, aw) ==
    IF aw.status = "rejected" THEN Throw(aw.reason)
    ELSE LET tasks == aw.value[1]
             formatted ==
                 JoinLines([i \in 1..Len(tasks) |-> formatTaskDetails(tasks[i])],
                           << <<>> >>)
         IN IF Len(tasks) = 0
            THEN Return(TextEnvelope(
                     << <<"No tasks found matching the criteria.">> >>))
            ELSE Return(TextEnvelope(
                     << <<"Found ", ToString(Len(tasks)), " tasks:">>, <<>> >>
                     \o formatted))

getTasksByFilter(args, aw) ==
    IF aw.status = "rejected" THEN Throw(aw.reason)
    ELSE LET tasks == aw.value[1]
             formatted ==
                 JoinLines([i \in 1..Len(tasks) |-> formatTaskDetails(tasks[i])],
                           << <<>> >>)
         IN IF Len(tasks) = 0
            THEN Return(TextEnvelope(
                     << <<"No tasks found matching the filter.">> >>))
            ELSE Return(TextEnvelope(
                     << <<"Found ", ToString(Len(tasks)),
                          " tasks with filter \"", args.filter, "\":">>,
                        <<>> >>
                     \o formatted))

\* mutant of updateData: task_id is left among the update fields
updateData_Whole(args) == args

\* const { task_id, ...updateData } = args
updateData(args) == Restrict(args, DOMAIN args \ {"task_id"})

updateTaskCall(args) == Call("updateTask", <<args.task_id, updateData(args)>>)

updateTask(args, aw) ==
    IF aw.status = "rejected" THEN Throw(aw.reason)
    ELSE LET updatedTask == aw.value[1]
         IN Return(TextEnvelope(
                << <<"Updated task: \"", updatedTask.content, "\"">>,
                   <<"ID: ", updatedTask.id>> >>))

\* mutant of closeTask: a false result of the remote call is flagged isError
closeTask_FlagsFalse(args, aw) ==
    IF aw.status = "rejected" THEN Throw(aw.reason)
    ELSE IF aw.value[1]
         THEN Return(TextEnvelope(
                  << <<"Task ", args.task_id, " marked as complete">> >>))
         ELSE Return(ErrorEnvelope(
                  << <<"Failed to complete task ", args.task_id>> >>))

closeTask(args, aw) ==
    IF aw.status = "rejected" THEN Throw(aw.reason)
    ELSE LET success == aw.value[1]
         IN Return(TextEnvelope(
                IF success
                THEN << <<"Task ", args.task_id, " marked as complete">> >>
                ELSE << <<"Failed to complete task ", args.task_id>> >>))

reopenTask(args, aw) ==
    IF aw.status = "rejected" THEN Throw(aw.reason)
    ELSE LET success == aw.value[1]
         IN Return(TextEnvelope(
                IF success
                THEN << <<"Task ", args.task_id, " reopened">> >>
                ELSE << <<"Failed to reopen task ", args.task_id>> >>))

\* mutant of deleteTask: a false result of the remote call is flagged isError
deleteTask_FlagsFalse(args, aw) ==
    IF aw.status = "rejected" THEN Throw(aw.reason)
    ELSE IF aw.value[1]
         THEN Return(TextEnvelope(
                  << <<"Task ", args.task_id, " deleted permanently">> >>))
         ELSE Return(ErrorEnvelope(
                  << <<"Failed to delete task ", args.task_id>> >>))

deleteTask(args, aw) ==
    IF aw.status = "rejected" THEN Throw(aw.reason)
    ELSE LET success == aw.value[1]
         IN Return(TextEnvelope(
                IF success
                THEN << <<"Task ", args.task_id, " deleted permanently">> >>
                ELSE << <<"Failed to delete task ", args.task_id>> >>))

getProjects(aw) ==
    IF aw.status = "rejected" THEN Throw(aw.reason)
    ELSE LET projects == aw.value[1]
         IN Return(TextEnvelope(
                << <<"Projects:">> >>
                \o [i \in 1..Len(projects) |->
                       <<"- ", projects[i].name, " (ID: ", projects[i].id, ")",
                         IF projects[i].isShared THEN " [Shared]" ELSE "">>]))

quickAddTask(args, aw) ==
    IF aw.status = "rejected" THEN Throw(aw.reason)
    ELSE LET task == aw.value[1]
         IN Return(TextEnvelope(
                << <<"Quick-added task: \"", task.content, "\"">>,
                   <<"ID: ", task.id>> >>))

----------------------------------------------------------------------------
(* Operation dispatcher (CallToolRequestSchema handler) *)

\* the remote calls the selected tool implementation issues before its first
\* await; none when no case of the switch matches
CallToolCalls(name, args) ==
    CASE name = "todoist_add_task" -> << Call("addTask", <<args>>) >>
      [] name = "todoist_get_tasks" -> << Call("getTasks", <<args>>) >>
      [] name = "todoist_get_tasks_by_filter" ->
            << Call("getTasksByFilter", <<args>>) >>
      [] name = "todoist_update_task" -> << updateTaskCall(args) >>
      [] name = "todoist_close_task" -> << Call("closeTask", <<args.task_id>>) >>
      [] name = "todoist_reopen_task" ->
            << Call("reopenTask", <<args.task_id>>) >>
      [] name = "todoist_delete_task" ->
            << Call("deleteTask", <<args.task_id>>) >>
      [] name = "todoist_get_projects" -> << Call("getProjects", << <<>> >>) >>
      [] name = "todoist_quick_add_task" -> << Call("quickAddTask", <<args>>) >>
      [] OTHER -> <<>>

\* the switch: the outcome of the selected implementation, or the throw of
\* the default case
ToolSwitch(name, args, aw) ==
    CASE name = "todoist_add_task" -> addTask(args, aw)
      [] name = "todoist_get_tasks" -> getTasks(args, aw)
      [] name = "todoist_get_tasks_by_filter" -> getTasksByFilter(args, aw)
      [] name = "todoist_update_task" -> updateTask(args, aw)
      [] name = "todoist_close_task" -> closeTask(args, aw)
      [] name = "todoist_reopen_task" -> reopenTask(args, aw)
      [] name = "todoist_delete_task" -> deleteTask(args, aw)
      [] name = "todoist_get_projects" -> getProjects(aw)
      [] name = "todoist_quick_add_task" -> quickAddTask(args, aw)
      [] OTHER -> Throw(<<"Unknown tool: ", name>>)

\* mutant of ToolCatch: the error text is returned without the isError flag
ToolCatch_NoFlag(error) == Return(TextEnvelope(<< <<"Error: ">> \o error >>))

\* the catch block of the dispatcher
ToolCatch(error) == Return(ErrorEnvelope(<< <<"Error: ">> \o error >>))

\* try { switch } catch
CallToolHandler(name, args, aw) ==
    LET out == ToolSwitch(name, args, aw)
    IN IF out.threw THEN ToolCatch(out.error) ELSE out

----------------------------------------------------------------------------
(* The tool of src/src/server.ts *)

\* todoistClient.getTasks({ filter: query, lang: lang })
ServerToolCalls(args) ==
    << Call("getTasks",
            << IF "lang" \in DOMAIN args
               THEN [filter |-> args.query, lang |-> args.lang]
               ELSE [filter |-> args.query] >>) >>

\* priorityLabels[task.priority] || task.priority
PriorityLabel(priority) ==
    CASE priority = 2 -> "Low"
      [] priority = 3 -> "Medium"
      [] priority = 4 -> "High"
      [] OTHER -> ToString(priority)

formattedTask(task) ==
    << <<"* ", task.content, " (ID: ", task.id, ")">> >>
    \o (IF Truthy(task, "description")
        THEN << <<"  Description: ", task.description>> >> ELSE <<>>)
    \o (IF "due" \in DOMAIN task
        THEN << <<"  Due: ", task.due.string>> >> ELSE <<>>)
    \o (IF task.priority > 1
        THEN << <<"  Priority: ", PriorityLabel(task.priority)>> >> ELSE <<>>)
    \o (IF "labels" \in DOMAIN task /\ Len(task.labels) > 0
        THEN << <<"  Labels: ">> \o JoinParts(task.labels, ", ") >> ELSE <<>>)
    \o (IF Truthy(task, "projectId")
        THEN << <<"  Project ID: ", task.projectId>> >> ELSE <<>>)

\* the catch block of the tool callback
ServerToolCatch(error) ==
    Return(ErrorEnvelope(<< <<"Error fetching tasks: ">> \o error >>))

\* the zero-result branch of the tool callback
ServerNoTasks(query) ==
    Return(TextEnvelope(
        << <<"No tasks found matching filter: \"", query, "\"">> >>))

ServerToolHandler(args, aw) ==
    IF aw.status = "rejected" THEN ServerToolCatch(aw.reason)
    ELSE LET tasks == aw.value[1]
             formattedTasks ==
                 JoinLines([i \in 1..Len(tasks) |-> formattedTask(tasks[i])],
                           << <<>> >>)
         IN IF Len(tasks) = 0
            THEN ServerNoTasks(args.query)
            ELSE Return(TextEnvelope(
                     << <<"Found ", ToString(Len(tasks)),
                          " tasks with filter \"", args.query, "\":">>,
                        <<>> >>
                     \o formattedTasks))

----------------------------------------------------------------------------
(* View aggregator *)

\* mutant of TaskLines: a task is listed once however often the list holds it
TaskLines_Dedup(tasks) ==
    LET first == SelectSeq([i \in 1..Len(tasks) |-> i],
                           LAMBDA i : \A j \in 1..(i - 1) : tasks[j] # tasks[i])
    IN [k \in 1..Len(first) |-> <<"- ", tasks[first[k]].content>>]

\* tasks.map((task) => `- ${task.content}`).join("\n")
TaskLines(tasks) == [i \in 1..Len(tasks) |-> <<"- ", tasks[i].content>>]

\* the priority buckets of the daily view
urgent(todayTasks) == SelectSeq(todayTasks, LAMBDA t : t.priority = 4)
high(todayTasks) == SelectSeq(todayTasks, LAMBDA t : t.priority = 3)
\* mutant of normal: the threshold is < 2, so priority 2 falls in no bucket
normal_Below2(todayTasks) == SelectSeq(todayTasks, LAMBDA t : t.priority < 2)
normal(todayTasks) == SelectSeq(todayTasks, LAMBDA t : t.priority <= 2)

\* a heading, the task lines and the empty line that closes a section; nothing
\* for an empty list
Section(heading, tasks) ==
    IF Len(tasks) > 0
    THEN << <<heading>> >> \o TaskLines(tasks) \o << <<>> >>
    ELSE <<>>

OverdueSection(overdueTasks) == Section("## Overdue Tasks", overdueTasks)

\* mutant of TodaySection: the high bucket is rendered before the urgent one
TodaySection_HighFirst(todayTasks) ==
    IF Len(todayTasks) > 0
    THEN << <<"## Today's Tasks">> >>
         \o Section("### High Priority", high(todayTasks))
         \o Section("### Urgent", urgent(todayTasks))
         \o Section("### Normal", normal(todayTasks))
    ELSE << <<"## Today's Tasks">>, <<"No tasks scheduled for today.">>, <<>> >>

TodaySection(todayTasks) ==
    IF Len(todayTasks) > 0
    THEN << <<"## Today's Tasks">> >>
         \o Section("### Urgent", urgent(todayTasks))
         \o Section("### High Priority", high(todayTasks))
         \o Section("### Normal", normal(todayTasks))
    ELSE << <<"## Today's Tasks">>, <<"No tasks scheduled for today.">>, <<>> >>

\* mutant of DailySummary: the two counts are swapped
DailySummary_Swapped(overdueTasks, todayTasks) ==
    <<"**Summary:** ", ToString(Len(todayTasks)), " overdue, ",
      ToString(Len(overdueTasks)), " today">>

DailySummary(overdueTasks, todayTasks) ==
    <<"**Summary:** ", ToString(Len(overdueTasks)), " overdue, ",
      ToString(Len(todayTasks)), " today">>

\* the body of generateDailyPlanningView after the await
DailyDocument(todayTasks, overdueTasks) ==
    << <<"# Daily Planning Overview">>, <<>> >>
    \o OverdueSection(overdueTasks)
    \o TodaySection(todayTasks)
    \o << DailySummary(overdueTasks, todayTasks) >>

\* Promise.all([getTasksByFilter today, getTasksByFilter overdue])
DailyCalls ==
    << Call("getTasksByFilter", << [filter |-> "today"] >>),
       Call("getTasksByFilter", << [filter |-> "overdue"] >>) >>

\* mutant of generateDailyPlanningView: a failed query counts as an empty
\* result (Promise.allSettled in place of Promise.all)
generateDailyPlanningView_Partial(aw) ==
    IF aw.status = "rejected" THEN Return(DailyDocument(<<>>, <<>>))
    ELSE Return(DailyDocument(aw.value[1], aw.value[2]))

generateDailyPlanningView(aw) ==
    IF aw.status = "rejected" THEN Throw(aw.reason)
    ELSE Return(DailyDocument(aw.value[1], aw.value[2]))

\* a < b in the order of the default Array.prototype.sort: by UTF-16 code units
LexLess(a, b) ==
    LET ca == CodeUnits(a)
        cb == CodeUnits(b)
    IN \E i \in 1..Len(cb) :
          /\ \A j \in 1..(i - 1) : j <= Len(ca) /\ ca[j] = cb[j]
          /\ (i > Len(ca) \/ ca[i] < cb[i])

\* insertion of a key into a sorted sequence of keys
RECURSIVE SortInsert(_, _)
SortInsert(k, sorted) ==
    IF sorted = <<>> THEN <<k>>
    ELSE IF LexLess(k, Head(sorted)) THEN <<k>> \o sorted
    ELSE <<Head(sorted)>> \o SortInsert(k, Tail(sorted))

\* keys.sort()
RECURSIVE Sort(_)
Sort(keys) == IF keys = <<>> THEN <<>> ELSE SortInsert(Head(keys), Sort(Tail(keys)))

\* mutant of GroupByDate: the array of a date is replaced, not extended
RECURSIVE GroupByDate_Overwrite(_, _)
GroupByDate_Overwrite(weekTasks, acc) ==
    IF weekTasks = <<>> THEN acc
    ELSE LET task == Head(weekTasks)
             next ==
                 IF "due" \in DOMAIN task
                 THEN LET dateKey == task.due.date
                      IN [keys |-> IF dateKey \in Range(acc.keys) THEN acc.keys
                                   ELSE Append(acc.keys, dateKey),
                          groups |-> [acc.groups EXCEPT ![dateKey] = <<task>>]]
                 ELSE acc
         IN GroupByDate_Overwrite(Tail(weekTasks), next)

\* the forEach that fills tasksByDate: keys holds the own keys in insertion
\* order (the order Object.keys gives non-index string keys), groups the arrays
RECURSIVE GroupByDate(_, _)
GroupByDate(weekTasks, acc) ==
    IF weekTasks = <<>> THEN acc
    ELSE LET task == Head(weekTasks)
             next ==
                 IF "due" \in DOMAIN task
                 THEN LET dateKey == task.due.date
                      IN [keys |-> IF dateKey \in Range(acc.keys) THEN acc.keys
                                   ELSE Append(acc.keys, dateKey),
                          groups |-> [acc.groups EXCEPT ![dateKey] = Append(@, task)]]
                 ELSE acc
         IN GroupByDate(Tail(weekTasks), next)

tasksByDate(weekTasks) ==
    GroupByDate(weekTasks, [keys |-> <<>>, groups |-> [d \in DateKeys |-> <<>>]])

\* mutant of sortedDates: the keys are left in insertion order (no sort)
sortedDates_Unsorted(weekTasks) == tasksByDate(weekTasks).keys

\* Object.keys(tasksByDate).sort()
sortedDates(weekTasks) == Sort(tasksByDate(weekTasks).keys)

\* the heading of a date section
DateHeading(date, now) ==
    <<"## ", DayName(date), ", ", date, IF date = now THEN " (Today)" ELSE "">>

\* mutant of WeeklyTotal: only the tasks that were grouped under a date count
WeeklyTotal_DatedOnly(weekTasks) ==
    <<"**Total this week:** ",
      ToString(Len(SelectSeq(weekTasks, LAMBDA t : "due" \in DOMAIN t))),
      " tasks">>

WeeklyTotal(weekTasks) ==
    <<"**Total this week:** ", ToString(Len(weekTasks)), " tasks">>

\* mutant of WeeklyDocument: no early return for an empty result
WeeklyDocument_NoShortCircuit(weekTasks, now) ==
    LET dates == sortedDates(weekTasks)
        groups == tasksByDate(weekTasks).groups
    IN << <<"# Weekly Planning Overview">>, <<>> >>
       \o Concat([i \in 1..Len(dates) |->
                     << DateHeading(dates[i], now) >>
                     \o TaskLines(groups[dates[i]]) \o << <<>> >>])
       \o << WeeklyTotal(weekTasks) >>

\* the body of generateWeeklyPlanningView after the await
WeeklyDocument(weekTasks, now) ==
    IF Len(weekTasks) = 0
    THEN << <<"# Weekly Planning Overview">>, <<>>,
            <<"No tasks scheduled for this week.">> >>
    ELSE LET dates == sortedDates(weekTasks)
             groups == tasksByDate(weekTasks).groups
         IN << <<"# Weekly Planning Overview">>, <<>> >>
            \o Concat([i \in 1..Len(dates) |->
                          << DateHeading(dates[i], now) >>
                          \o TaskLines(groups[dates[i]]) \o << <<>> >>])
            \o << WeeklyTotal(weekTasks) >>

WeeklyCalls == << Call("getTasksByFilter", << [filter |-> "7 days"] >>) >>

generateWeeklyPlanningView(aw, now) ==
    IF aw.status = "rejected" THEN Throw(aw.reason)
    ELSE Return(WeeklyDocument(aw.value[1], now))

----------------------------------------------------------------------------
(* Resource handler (ReadResourceRequestSchema) *)

ReadResourceCalls(uri) ==
    CASE uri = "todoist://planning/daily" -> DailyCalls
      [] uri = "todoist://planning/weekly" -> WeeklyCalls
      [] OTHER -> <<>>

ResourceContents(uri, text) ==
    [contents |-> << [uri |-> uri, mimeType |-> "text/markdown", text |-> text] >>]

\* the catch block of the resource handler: contents without an isError flag
ResourceCatch(uri, error) ==
    Return(ResourceContents(uri, << <<"Error: ">> \o error >>))

ReadResourceHandler(uri, aw, now) ==
    LET out ==
            CASE uri = "todoist://planning/daily" -> generateDailyPlanningView(aw)
              [] uri = "todoist://planning/weekly" ->
                    generateWeeklyPlanningView(aw, now)
              [] OTHER -> Throw(<<"Unknown resource: ", uri>>)
    IN IF out.threw THEN ResourceCatch(uri, out.error)
       ELSE Return(ResourceContents(uri, out.value))

----------------------------------------------------------------------------
(* Prompt assembler (GetPromptRequestSchema handler) *)

GetPromptCalls(name) ==
    CASE name = "daily_planner" -> DailyCalls
      [] name = "task_manager" -> WeeklyCalls
      [] OTHER -> <<>>

PromptResult(description, text) ==
    [description |-> description,
     messages |-> << [role |-> "user",
                      content |-> [type |-> "text", text |-> text]] >>]

generateDailyPlannerPrompt(aw) ==
    LET dailyView == generateDailyPlanningView(aw)
    IN IF dailyView.threw THEN dailyView
       ELSE Return(PromptResult("Daily planning assistant",
                << <<"I need help planning my day. Here's my current task situation:">>,
                   <<>> >>
                \o dailyView.value
                \o << <<>>,
                      <<"Please help me:">>,
                      <<"1. **Prioritize** - What should I focus on first?">>,
                      <<"2. **Schedule** - How should I organize my day?">>,
                      <<"3. **Capacity** - Is this realistic for today?">>,
                      <<"4. **Actions** - What specific steps should I take?">>,
                      <<>>,
                      <<"Provide a concrete daily plan with time estimates and suggest any Todoist commands I should run.">> >>))

generateTaskManagerPrompt(args, aw, now) ==
    LET weeklyView == generateWeeklyPlanningView(aw, now)
        contextText ==
            IF Truthy(args, "context")
            THEN << <<>>, <<"Specific context: ", args.context>> >> ELSE <<>>
    IN IF weeklyView.threw THEN weeklyView
       ELSE Return(PromptResult("Task management assistant",
                << <<"I need help managing my tasks effectively. Here's my current workload:">>,
                   <<>> >>
                \o weeklyView.value
                \o contextText
                \o << <<>>,
                      <<"Please help me:">>,
                      <<"1. **Organization** - How can I better organize these tasks?">>,
                      <<"2. **Workflow** - What's the most efficient approach?">>,
                      <<"3. **Tools** - What Todoist features/commands would help?">>,
                      <<"4. **Planning** - How should I approach this workload?">>,
                      <<>>,
                      <<"Give me actionable advice and specific Todoist commands I can use.">> >>))

\* the switch of the prompt handler: no try/catch around it
GetPromptHandler(name, args, aw, now) ==
    CASE name = "daily_planner" -> generateDailyPlannerPrompt(aw)
      [] name = "task_manager" -> generateTaskManagerPrompt(args, aw, now)
      [] OTHER -> Throw(<<"Unknown prompt: ", name>>)

----------------------------------------------------------------------------
(* The state machine: one request at a time is handed to its handler, the  *)
(* handler issues its remote calls and suspends, the remote client settles *)
(* each call, the handler resumes and the response goes to the transport.  *)

VARIABLES
    req,      \* the request being processed
    pc,       \* "idle" | "await" (handler suspended) | "done" (response made)
    calls,    \* the remote calls issued for the request, in issue order
    awaited,  \* the promise the handler awaits (Promise.all of its calls)
    resp      \* the outcomes handed to the transport for the request

vars == <<req, pc, calls, awaited, resp>>

NoReq == [kind |-> "none", name |-> "", args |-> <<>>]
NoPromise == [status |-> "none"]
Pending == [status |-> "pending"]

\* the calls a handler issues before its first await
CallsOf(r) ==
    CASE r.kind = "tool" -> CallToolCalls(r.name, r.args)
      [] r.kind = "servertool" -> ServerToolCalls(r.args)
      [] r.kind = "resource" -> ReadResourceCalls(r.name)
      [] r.kind = "prompt" -> GetPromptCalls(r.name)

\* the outcome of the request handler once the awaited promise has settled
\* (or at once, when it issued no call)
HandlerOutcome(r, aw, now) ==
    CASE r.kind = "tool" -> CallToolHandler(r.name, r.args, aw)
      [] r.kind = "servertool" -> ServerToolHandler(r.args, aw)
      [] r.kind = "resource" -> ReadResourceHandler(r.name, aw, now)
      [] r.kind = "prompt" -> GetPromptHandler(r.name, r.args, aw, now)

\* mutant of PromiseAll: the rejection is delivered only once every call has
\* settled (fail-slow)
PromiseAll_WaitsAll(cs, prev, settled) ==
    IF prev.status # "pending" THEN prev
    ELSE IF \E i \in 1..Len(cs) : cs[i].status = "pending" THEN prev
    ELSE IF \E i \in 1..Len(cs) : cs[i].status = "rejected"
         THEN [status |-> "rejected",
               reason |-> cs[CHOOSE i \in 1..Len(cs) : cs[i].status = "rejected"].reason]
    ELSE [status |-> "fulfilled", value |-> [i \in 1..Len(cs) |-> cs[i].value]]

\* Promise.all over the calls: rejected with the reason of the first call to
\* reject, fulfilled with all the values once every call is fulfilled
PromiseAll(cs, prev, settled) ==
    IF prev.status # "pending" THEN prev
    ELSE IF cs[settled].status = "rejected"
         THEN [status |-> "rejected", reason |-> cs[settled].reason]
    ELSE IF \A i \in 1..Len(cs) : cs[i].status = "fulfilled"
         THEN [status |-> "fulfilled", value |-> [i \in 1..Len(cs) |-> cs[i].value]]
    ELSE prev

\* what the remote client may answer to a call
Results(call, r) ==
    CASE call.op \in { "addTask", "updateTask", "quickAddTask" } -> Tasks
      [] call.op \in { "closeTask", "reopenTask", "deleteTask" } -> BOOLEAN
      [] call.op = "getProjects" -> SeqUpTo(Projects, MaxProjects)
      [] call.op \in { "getTasks", "getTasksByFilter" } ->
            IF Len(CallsOf(r)) > 1 THEN SeqUpTo(Tasks, MaxDaily)
            ELSE SeqUpTo(Tasks, MaxTasks)

Init ==
    /\ req = NoReq
    /\ pc = "idle"
    /\ calls = <<>>
    /\ awaited = NoPromise
    /\ resp = <<>>

\* the state after a request handler has started: it has issued its calls
\* and is suspended, or, with no call to make (an unknown name), it has run
\* to its end
Started(r) ==
    IF CallsOf(r) = <<>>
    THEN [pc |-> "done", awaited |-> NoPromise,
          resp |-> << HandlerOutcome(r, NoPromise, "2024-05-01") >>]
    ELSE [pc |-> "await", awaited |-> Pending, resp |-> <<>>]

CallTool ==
    /\ pc = "idle"
    /\ \E name \in ToolNames \cup UnknownToolNames :
          \E args \in ToolArgs(name) :
              LET r == [kind |-> "tool", name |-> name, args |-> args]
              IN /\ req' = r
                 /\ calls' = CallsOf(r)
                 /\ pc' = Started(r).pc
                 /\ awaited' = Started(r).awaited
                 /\ resp' = Started(r).resp

ServerTool ==
    /\ pc = "idle"
    /\ \E args \in ServerToolArgs :
          LET r == [kind |-> "servertool",
                    name |-> "todoist_get_tasks_by_filter", args |-> args]
          IN /\ req' = r
             /\ calls' = CallsOf(r)
             /\ pc' = Started(r).pc
             /\ awaited' = Started(r).awaited
             /\ resp' = Started(r).resp

ReadResource ==
    /\ pc = "idle"
    /\ \E uri \in ResourceUris \cup UnknownUris :
          LET r == [kind |-> "resource", name |-> uri, args |-> <<>>]
          IN /\ req' = r
             /\ calls' = CallsOf(r)
             /\ pc' = Started(r).pc
             /\ awaited' = Started(r).awaited
             /\ resp' = Started(r).resp

GetPrompt ==
    /\ pc = "idle"
    /\ \E name \in PromptNames \cup UnknownPromptNames :
          \E args \in PromptArgs(name) :
              LET r == [kind |-> "prompt", name |-> name, args |-> args]
              IN /\ req' = r
                 /\ calls' = CallsOf(r)
                 /\ pc' = Started(r).pc
                 /\ awaited' = Started(r).awaited
                 /\ resp' = Started(r).resp

\* the remote client fulfils a pending call
RemoteResolve ==
    \E i \in 1..Len(calls) :
        /\ calls[i].status = "pending"
        /\ \E v \in Results(calls[i], req) :
              /\ calls' = [calls EXCEPT ![i] =
                              [op |-> @.op, params |-> @.params,
                               status |-> "fulfilled", value |-> v]]
              /\ awaited' = PromiseAll(calls', awaited, i)
        /\ UNCHANGED <<req, pc, resp>>

\* mutant of RemoteReject: the rejected call is issued again (a retry)
RemoteReject_Retry ==
    \E i \in 1..Len(calls) :
        /\ calls[i].status = "pending"
        /\ \E msg \in Messages :
              calls' = Append([calls EXCEPT ![i] =
                                  [op |-> @.op, params |-> @.params,
                                   status |-> "rejected", reason |-> msg]],
                              Call(calls[i].op, calls[i].params))
        /\ UNCHANGED <<req, pc, resp, awaited>>

\* the remote client rejects a pending call
RemoteReject ==
    \E i \in 1..Len(calls) :
        /\ calls[i].status = "pending"
        /\ \E msg \in Messages :
              /\ calls' = [calls EXCEPT ![i] =
                              [op |-> @.op, params |-> @.params,
                               status |-> "rejected", reason |-> msg]]
              /\ awaited' = PromiseAll(calls', awaited, i)
        /\ UNCHANGED <<req, pc, resp>>

\* mutant of Resume: a timer also wakes the handler, which then fails
Resume_Timeout ==
    /\ pc = "await"
    /\ pc' = "done"
    /\ UNCHANGED <<req, calls, awaited>>
    /\ \E now \in Nows :
          resp' = Append(resp, IF awaited.status = "pending"
                               THEN Throw(<<"Request timed out">>)
                               ELSE HandlerOutcome(req, awaited, now))

\* the suspended handler resumes once the promise it awaits has settled
Resume ==
    /\ pc = "await"
    /\ awaited.status # "pending"
    /\ pc' = "done"
    /\ UNCHANGED <<req, calls, awaited>>
    /\ \E now \in Nows :
          resp' = Append(resp, HandlerOutcome(req, awaited, now))

\* the transport takes the response; the server is ready for the next request
Respond ==
    /\ pc = "done"
    /\ req' = NoReq
    /\ pc' = "idle"
    /\ calls' = <<>>
    /\ awaited' = NoPromise
    /\ resp' = <<>>

Next ==
    \/ CallTool
    \/ ServerTool
    \/ ReadResource
    \/ GetPrompt
    \/ RemoteResolve
    \/ RemoteReject
    \/ Resume
    \/ Respond

Spec == Init /\ [][Next]_vars

----------------------------------------------------------------------------
\* the handler is suspended on a promise that has settled: Resume is enabled
ResumeEnabled == pc = "await" /\ awaited.status # "pending"

\* the server when every remote call that was issued completes or fails, and
\* the event loop runs the continuation of a settled promise. The second
\* condition is WF_vars(Resume) with ENABLED <<Resume>>_vars written out: a
\* Resume step is possible exactly when ResumeEnabled holds, and it ends it.
FairSpec ==
    /\ Spec
    /\ WF_vars(RemoteResolve \/ RemoteReject)
    /\ []<>~ResumeEnabled

(* Vocabulary of the properties *)

Done == pc = "done"

IsToolReq == req.kind \in { "tool", "servertool" }

\* a remote call of the request was rejected
RemoteFailed == \E i \in 1..Len(calls) : calls[i].status = "rejected"

\* the reasons of the rejected calls
FailureMessages ==
    { calls[i].reason : i \in { j \in 1..Len(calls) : calls[j].status = "rejected" } }

\* the request is answered by a returned value (nothing was thrown to the
\* transport)
Returned == Len(resp) = 1 /\ ~resp[1].threw

\* the text of the single content block of a tool envelope
EnvText(env) == env.content[1].text

\* the string s is a part of some line of the text
Names(text, s) == \E i \in 1..Len(text) : s \in Range(text[i])

IsDailyReq ==
    \/ req.kind = "resource" /\ req.name = "todoist://planning/daily"
    \/ req.kind = "prompt" /\ req.name = "daily_planner"

\* the daily document was read as a resource and rendered
DailyRendered ==
    /\ Done
    /\ req.kind = "resource" /\ req.name = "todoist://planning/daily"
    /\ awaited.status = "fulfilled"

\* the weekly document was read as a resource and rendered
WeeklyRendered ==
    /\ Done
    /\ req.kind = "resource" /\ req.name = "todoist://planning/weekly"
    /\ awaited.status = "fulfilled"

\* the text of the document a resource read returned
DocText == resp[1].value.contents[1].text

\* the task contents of the item lines that follow line i, up to the empty line
RECURSIVE ItemsFrom(_, _)
ItemsFrom(doc, i) ==
    IF i > Len(doc) \/ Len(doc[i]) # 2 \/ doc[i][1] # "- " THEN <<>>
    ELSE <<doc[i][2]>> \o ItemsFrom(doc, i + 1)

\* the task contents listed under the heading, none when the heading is absent
SectionItems(doc, heading) ==
    IF <<heading>> \in Range(doc)
    THEN ItemsFrom(doc, (CHOOSE i \in 1..Len(doc) : doc[i] = <<heading>>) + 1)
    ELSE <<>>

\* the date keys of the date headings of a weekly document, in document order
RECURSIVE SectionDates(_)
SectionDates(doc) ==
    IF doc = <<>> THEN <<>>
    ELSE IF Len(Head(doc)) = 5 /\ Head(doc)[1] = "## "
         THEN <<Head(doc)[4]>> \o SectionDates(Tail(doc))
         ELSE SectionDates(Tail(doc))

\* the reorderings of a sequence
Permutations(s) ==
    { [i \in 1..Len(s) |-> s[f[i]]] :
        f \in { g \in [1..Len(s) -> 1..Len(s)] :
                  \A a, b \in 1..Len(s) : g[a] = g[b] => a = b } }

----------------------------------------------------------------------------
(* Properties *)

\* C1: dispatching a tool name that no case of the switch matches returns
\* (never throws) one envelope flagged isError whose text names that name.
C1_UnknownToolIsError ==
    (Done /\ req.kind = "tool" /\ req.name \notin ToolNames) =>
        /\ Returned
        /\ IsError(resp[1].value)
        /\ Names(EnvText(resp[1].value), req.name)

C1_Witness ==
    /\ Done /\ req.kind = "tool" /\ req.name = "todoist_create_task"
    /\ Len(resp) = 1

\* C2: for every tool (of either program) whose remote call failed, the
\* response is exactly { content: [{ type: "text", text: "Error: " + message }],
\* isError: true } with the remote failure's message, and nothing is thrown.
C2_ErrorEnvelopeVerbatim ==
    (Done /\ IsToolReq /\ RemoteFailed) =>
        /\ Returned
        /\ \E m \in FailureMessages :
              resp[1].value =
                  [content |-> << [type |-> "text",
                                   text |-> << <<"Error: ">> \o m >>] >>,
                   isError |-> TRUE]

\* C3 as stated: every dispatched tool call produces exactly one envelope,
\* flagged isError if and only if the handler raised or the remote call failed.
C3_ErrorIffRemoteFailed ==
    (Done /\ IsToolReq) =>
        /\ Returned
        /\ IsError(resp[1].value) <=> RemoteFailed

\* C3 as amended: every dispatched tool call produces exactly one envelope,
\* flagged isError if and only if the remote call failed (the only way a tool
\* implementation raises) or the tool name is not registered.
C3_OneEnvelopeErrorIff ==
    /\ Len(resp) <= 1
    /\ Done <=> Len(resp) = 1
    /\ (Done /\ IsToolReq) =>
          /\ Returned
          /\ IsError(resp[1].value) <=>
                (RemoteFailed \/ (req.kind = "tool" /\ req.name \notin ToolNames))

\* a registered tool whose remote call failed has answered
C3_Witness ==
    /\ Done /\ req.kind = "tool" /\ req.name \in ToolNames
    /\ RemoteFailed
    /\ Returned /\ IsError(resp[1].value)

\* C4: get_tasks_by_filter (of either program) whose remote query returned no
\* task returns one text block that names the filter it was given, not
\* flagged isError.
C4_ZeroResultNamesFilter ==
    (/\ Done /\ IsToolReq /\ req.name = "todoist_get_tasks_by_filter"
     /\ awaited.status = "fulfilled" /\ Len(awaited.value[1]) = 0) =>
        /\ Returned
        /\ ~IsError(resp[1].value)
        /\ Len(resp[1].value.content) = 1
        /\ resp[1].value.content[1].type = "text"
        /\ Names(EnvText(resp[1].value),
                 IF req.kind = "tool" THEN req.args.filter ELSE req.args.query)

\* C5: the urgent, high and normal sections of a rendered daily document are
\* a disjoint cover of the "today" result: every task is listed in exactly
\* one of them, priority 4 under urgent, 3 under high, 2 or less under normal.
C5_BucketsDisjointCover ==
    DailyRendered =>
        LET todayTasks == awaited.value[1]
            U == SectionItems(DocText, "### Urgent")
            H == SectionItems(DocText, "### High Priority")
            N == SectionItems(DocText, "### Normal")
        IN /\ Len(U) + Len(H) + Len(N) = Len(todayTasks)
           /\ \A i \in 1..Len(todayTasks) :
                 LET c == todayTasks[i].content
                     p == todayTasks[i].priority
                 IN /\ (c \in Range(U)) <=> (p = 4)
                    /\ (c \in Range(H)) <=> (p = 3)
                    /\ (c \in Range(N)) <=> (p <= 2)

C5_Witness ==
    /\ DailyRendered
    /\ awaited.value[1] = <<TaskC, TaskA>>
    /\ SectionItems(DocText, "### Normal") = <<"C">>
    /\ SectionItems(DocText, "### Urgent") = <<"A">>

\* C6: when a query of the daily view failed, the daily view fails as a whole:
\* the resource read answers with the error text alone and the prompt with
\* the failure, and no line of a daily document is returned.
C6_DailyFailsWhole ==
    (Done /\ IsDailyReq /\ RemoteFailed) =>
        /\ Len(resp) = 1
        /\ IF req.kind = "resource"
           THEN /\ ~resp[1].threw
                /\ \E m \in FailureMessages : DocText = << <<"Error: ">> \o m >>
           ELSE /\ resp[1].threw
                /\ resp[1].error \in FailureMessages

\* the "overdue" query failed although the "today" query succeeded
C6_Witness ==
    /\ Done /\ req.kind = "resource" /\ req.name = "todoist://planning/daily"
    /\ calls[1].params[1].filter = "today" /\ calls[1].status = "fulfilled"
    /\ calls[2].params[1].filter = "overdue" /\ calls[2].status = "rejected"

\* C7: the date sections of a rendered weekly document are in strictly
\* ascending lexicographic order of their date keys, one per distinct due
\* date of the result, and every reordering of the result gives the same
\* section order.
C7_WeeklySectionsSorted ==
    WeeklyRendered =>
        LET weekTasks == awaited.value[1]
            dates == SectionDates(DocText)
        IN /\ \A i, j \in 1..Len(dates) : i < j => LexLess(dates[i], dates[j])
           /\ Range(dates) =
                 { weekTasks[i].due.date :
                     i \in { k \in 1..Len(weekTasks) : "due" \in DOMAIN weekTasks[k] } }
           /\ \A p \in Permutations(weekTasks) : \A now \in Nows :
                 SectionDates(WeeklyDocument(p, now)) = dates

\* the result holds a task due 2024-05-02 before one due 2024-05-01
C7_Witness ==
    /\ WeeklyRendered
    /\ awaited.value[1] = <<TaskA, TaskB>>
    /\ SectionDates(DocText) = <<"2024-05-01", "2024-05-02">>

\* C8: a rendered daily document has an overdue section if and only if the
\* overdue result is not empty, has the "No tasks scheduled for today." line
\* under the today heading when the today result is empty, and ends with its
\* only summary line, whose numbers are the sizes of the two results;
\* overdue = [] and today = [A, priority 4] give exactly the title, the today
\* heading, the urgent heading, "- A" and "0 overdue, 1 today".
C8_DailyDocumentShape ==
    DailyRendered =>
        LET todayTasks == awaited.value[1]
            overdueTasks == awaited.value[2]
            doc == DocText
        IN /\ (<<"## Overdue Tasks">> \in Range(doc)) <=> (Len(overdueTasks) > 0)
           /\ SectionItems(doc, "## Overdue Tasks")
                 = [i \in 1..Len(overdueTasks) |-> overdueTasks[i].content]
           /\ Len(todayTasks) = 0 =>
                 \E i \in 1..(Len(doc) - 1) :
                     /\ doc[i] = <<"## Today's Tasks">>
                     /\ doc[i + 1] = <<"No tasks scheduled for today.">>
           /\ doc[Len(doc)] = <<"**Summary:** ", ToString(Len(overdueTasks)),
                                " overdue, ", ToString(Len(todayTasks)), " today">>
           /\ Cardinality({ i \in 1..Len(doc) :
                               Len(doc[i]) > 0 /\ doc[i][1] = "**Summary:** " }) = 1
           /\ (overdueTasks = <<>> /\ todayTasks = <<TaskA>>) =>
                 doc = << <<"# Daily Planning Overview">>, <<>>,
                          <<"## Today's Tasks">>, <<"### Urgent">>,
                          <<"- ", "A">>, <<>>,
                          <<"**Summary:** ", "0", " overdue, ", "1", " today">> >>

C8_Witness ==
    /\ DailyRendered
    /\ awaited.value[2] = <<>> /\ awaited.value[1] = <<TaskA>>
    /\ <<"- ", "A">> \in Range(DocText)

\* C9: update_task passes task_id to the remote client as the positional id
\* and every other argument, never task_id, as the update fields (no field
\* when only task_id was given); when the remote call succeeds the envelope
\* is a success that carries the returned task's content and id.
C9_UpdateTaskSplit ==
    (req.kind = "tool" /\ req.name = "todoist_update_task") =>
        /\ Len(calls) = 1
        /\ calls[1].op = "updateTask"
        /\ calls[1].params[1] = req.args.task_id
        /\ DOMAIN calls[1].params[2] = DOMAIN req.args \ {"task_id"}
        /\ \A k \in DOMAIN calls[1].params[2] : calls[1].params[2][k] = req.args[k]
        /\ (Done /\ calls[1].status = "fulfilled") =>
              /\ Returned
              /\ ~IsError(resp[1].value)
              /\ Names(EnvText(resp[1].value), calls[1].value.content)
              /\ Names(EnvText(resp[1].value), calls[1].value.id)

\* update_task({ task_id: "X" }) answered by the remote client
C9_Witness ==
    /\ Done /\ req.kind = "tool" /\ req.name = "todoist_update_task"
    /\ DOMAIN req.args = {"task_id"} /\ req.args.task_id = "X"
    /\ DOMAIN calls[1].params[2] = {}
    /\ calls[1].status = "fulfilled"

\* C10: for a tool, resource or prompt request, an unknown name or a failed
\* remote call is answered by a returned response flagged isError, never by
\* a failure thrown to the transport.
C10_FailuresFlaggedNotThrown ==
    (/\ Done
     /\ req.kind \in { "tool", "resource", "prompt" }
     /\ (RemoteFailed \/ CallsOf(req) = <<>>)) =>
        /\ Returned
        /\ IsError(resp[1].value)


\* C11: in the daily view both filtered queries are issued when the handler
\* starts, so neither waits for the other to complete; the handler stays
\* suspended while a query is pending and none has failed, a response without
\* failure is made only after both queries completed, and once a query is
\* rejected the awaited promise is rejected at once, whether or not the other
\* query has completed.
C11_DailyFanOut ==
    IsDailyReq =>
        /\ Len(calls) = 2
        /\ calls[1].op = "getTasksByFilter" /\ calls[1].params[1].filter = "today"
        /\ calls[2].op = "getTasksByFilter" /\ calls[2].params[1].filter = "overdue"
        /\ (Done /\ ~RemoteFailed) => \A i \in 1..2 : calls[i].status = "fulfilled"
        /\ (pc = "await" /\ RemoteFailed) => awaited.status = "rejected"
        /\ (~RemoteFailed /\ \E i \in 1..2 : calls[i].status = "pending") =>
              (pc = "await" /\ awaited.status = "pending")

\* the view has failed while its other query is still pending
C11_Witness ==
    /\ IsDailyReq /\ Done
    /\ \E i, j \in 1..2 : calls[i].status = "rejected" /\ calls[j].status = "pending"
    /\ Len(resp) = 1


\* the filter argument the caller supplied to get_tasks_by_filter
SuppliedFilter == IF req.kind = "tool" THEN req.args.filter ELSE req.args.query

ExpectedCalls ==
    CASE req.kind = "tool" -> IF req.name \in ToolNames THEN 1 ELSE 0
      [] req.kind = "servertool" -> 1
      [] req.kind = "resource" ->
            IF req.name = "todoist://planning/daily" THEN 2
            ELSE IF req.name = "todoist://planning/weekly" THEN 1 ELSE 0
      [] req.kind = "prompt" ->
            IF req.name = "daily_planner" THEN 2
            ELSE IF req.name = "task_manager" THEN 1 ELSE 0
      [] OTHER -> 0

\* C13: a dispatch makes one response at most and never retries: a tool other
\* than the views has issued exactly one remote call, the weekly view one,
\* the daily view two, an unknown name none; and until the dispatch is over
\* no call is added, reissued or changed after it has settled.
C13_NoRetry ==
    /\ [](Len(resp) <= 1 /\ Len(calls) = ExpectedCalls)
    /\ [][pc # "idle" /\ pc' # "idle" =>
            /\ Len(calls') = Len(calls)
            /\ \A i \in 1..Len(calls) :
                  /\ calls'[i].op = calls[i].op
                  /\ calls'[i].params = calls[i].params
                  /\ calls[i].status # "pending" => calls'[i] = calls[i]]_vars

\* a tool dispatch has ended on a remote failure with its single call
C13_Witness ==
    /\ Done /\ req.kind = "tool" /\ req.name = "todoist_add_task"
    /\ Len(calls) = 1 /\ calls[1].status = "rejected"


\* the number of item lines of the document that list the content c
ItemCount(doc, c) == Cardinality({ i \in 1..Len(doc) : doc[i] = <<"- ", c>> })

\* the number of tasks of the list with the content c
Occurrences(tasks, c) == Cardinality({ i \in 1..Len(tasks) : tasks[i].content = c })

\* C14 as stated: a rendered planning document lists no task more than once,
\* whatever the queries returned.
C14_Deduplicated ==
    (DailyRendered \/ WeeklyRendered) =>
        \A t \in Tasks : ItemCount(DocText, t.content) <= 1

\* C14 as amended: nothing is deduplicated. A daily document lists a task
\* once for each time the "overdue" result holds it and once for each time
\* the "today" result holds it; a weekly document lists a task with a due
\* date once for each time the "7 days" result holds it.
C14_OnePerOccurrence ==
    /\ DailyRendered =>
          \A t \in Tasks :
              ItemCount(DocText, t.content)
                 = Occurrences(awaited.value[1], t.content)
                   + Occurrences(awaited.value[2], t.content)
    /\ WeeklyRendered =>
          \A t \in Tasks :
              ItemCount(DocText, t.content)
                 = IF "due" \in DOMAIN t
                   THEN Occurrences(awaited.value[1], t.content) ELSE 0

\* the task A is in the "today" result and in the "overdue" result
C14_Witness ==
    /\ DailyRendered
    /\ awaited.value[1] = <<TaskA>> /\ awaited.value[2] = <<TaskA>>
    /\ ItemCount(DocText, "A") = 2


\* the lines of the document that are total-count lines
TotalLines(doc) ==
    { i \in 1..Len(doc) : Len(doc[i]) > 0 /\ doc[i][1] = "**Total this week:** " }

\* C15: a weekly document rendered from an empty "7 days" result is the
\* title, an empty line and "No tasks scheduled for this week.", with no date
\* section and no total line, and no further remote call was made; one
\* rendered from a non-empty result ends with its only total line, which
\* gives the size of the result, and has no "nothing scheduled" line.
C15_WeeklyShortCircuit ==
    WeeklyRendered =>
        LET weekTasks == awaited.value[1]
            doc == DocText
        IN /\ Len(calls) = 1
           /\ weekTasks = <<>> =>
                 /\ doc = << <<"# Weekly Planning Overview">>, <<>>,
                             <<"No tasks scheduled for this week.">> >>
                 /\ SectionDates(doc) = <<>>
                 /\ TotalLines(doc) = {}
           /\ weekTasks # <<>> =>
                 /\ TotalLines(doc) = { Len(doc) }
                 /\ doc[Len(doc)] = <<"**Total this week:** ",
                                      ToString(Len(weekTasks)), " tasks">>
                 /\ <<"No tasks scheduled for this week.">> \notin Range(doc)

\* the "7 days" query returned the empty list
C15_Witness ==
    /\ WeeklyRendered
    /\ awaited.value[1] = <<>>
    /\ DocText[Len(DocText)] = <<"No tasks scheduled for this week.">>


\* the task contents listed under the heading of the date, none when the
\* document has no section for the date
DateItems(doc, date) ==
    LET hs == { i \in 1..Len(doc) :
                  Len(doc[i]) = 5 /\ doc[i][1] = "## " /\ doc[i][4] = date }
    IN IF hs = {} THEN <<>> ELSE ItemsFrom(doc, (CHOOSE i \in hs : TRUE) + 1)

\* C16: in a rendered weekly document a task of the result that has a due
\* date is listed under the heading of its due date and under no other date
\* heading; a task without a due date is listed nowhere, and the read still
\* returns the document (nothing is thrown, no error text is rendered).
C16_WeeklyGrouping ==
    WeeklyRendered =>
        LET weekTasks == awaited.value[1]
            doc == DocText
        IN /\ Returned
           /\ doc[1] = <<"# Weekly Planning Overview">>
           /\ \A i \in 1..Len(weekTasks) :
                 LET t == weekTasks[i]
                 IN IF "due" \in DOMAIN t
                    THEN \A d \in DateKeys :
                            (t.content \in Range(DateItems(doc, d))) <=> (d = t.due.date)
                    ELSE ItemCount(doc, t.content) = 0

\* two tasks share a due date and a third task has none
C16_Witness ==
    /\ WeeklyRendered
    /\ awaited.value[1] = <<TaskA, TaskC, TaskE>>
    /\ DateItems(DocText, "2024-05-02") = <<"A", "E">>
    /\ ItemCount(DocText, "C") = 0


\* a is b with some elements left out (the order kept)
RECURSIVE IsSubseq(_, _)
IsSubseq(a, b) ==
    IF a = <<>> THEN TRUE
    ELSE IF b = <<>> THEN FALSE
    ELSE IF Head(a) = Head(b) THEN IsSubseq(Tail(a), Tail(b))
    ELSE IsSubseq(a, Tail(b))

\* the contents of the tasks of a list, in the order of the list
Contents(tasks) == [i \in 1..Len(tasks) |-> tasks[i].content]

\* the lines of the document that are the heading
HeadingLines(doc, heading) == { i \in 1..Len(doc) : doc[i] = <<heading>> }

\* every line that is the first heading is above every line that is the second
Above(doc, h1, h2) ==
    \A i \in HeadingLines(doc, h1) : \A j \in HeadingLines(doc, h2) : i < j

\* C17: a rendered daily document has the urgent, high and normal heading
\* each at most once and only when the "today" result holds a task of that
\* bucket, the headings stand in the order overdue, today, urgent, high,
\* normal, and the tasks under each heading are a subsequence of the result
\* of the query they come from; the tasks under each date heading of a
\* rendered weekly document are a subsequence of the "7 days" result.
C17_BucketOrderAndStability ==
    /\ DailyRendered =>
          LET todayTasks == awaited.value[1]
              overdueTasks == awaited.value[2]
              doc == DocText
              Has(p) == \E i \in 1..Len(todayTasks) : p[todayTasks[i].priority]
          IN /\ Cardinality(HeadingLines(doc, "### Urgent")) =
                   (IF Has([q \in 1..4 |-> q = 4]) THEN 1 ELSE 0)
             /\ Cardinality(HeadingLines(doc, "### High Priority")) =
                   (IF Has([q \in 1..4 |-> q = 3]) THEN 1 ELSE 0)
             /\ Cardinality(HeadingLines(doc, "### Normal")) =
                   (IF Has([q \in 1..4 |-> q <= 2]) THEN 1 ELSE 0)
             /\ Above(doc, "## Overdue Tasks", "## Today's Tasks")
             /\ Above(doc, "## Today's Tasks", "### Urgent")
             /\ Above(doc, "## Today's Tasks", "### High Priority")
             /\ Above(doc, "## Today's Tasks", "### Normal")
             /\ Above(doc, "### Urgent", "### High Priority")
             /\ Above(doc, "### Urgent", "### Normal")
             /\ Above(doc, "### High Priority", "### Normal")
             /\ IsSubseq(SectionItems(doc, "## Overdue Tasks"), Contents(overdueTasks))
             /\ \A h \in { "### Urgent", "### High Priority", "### Normal" } :
                   IsSubseq(SectionItems(doc, h), Contents(todayTasks))
    /\ WeeklyRendered =>
          \A d \in DateKeys :
              IsSubseq(DateItems(DocText, d), Contents(awaited.value[1]))

\* two urgent tasks returned in the order E, A, below an overdue section
C17_Witness ==
    /\ DailyRendered
    /\ awaited.value[1] = <<TaskE, TaskA>> /\ awaited.value[2] = <<TaskB>>
    /\ SectionItems(DocText, "### Urgent") = <<"E", "A">>
    /\ HeadingLines(DocText, "## Overdue Tasks") = {3}
    /\ HeadingLines(DocText, "### High Priority") = {}


\* a tool that lists tasks has rendered a result
TasksListed ==
    /\ Done /\ IsToolReq
    /\ req.name \in { "todoist_get_tasks", "todoist_get_tasks_by_filter" }
    /\ awaited.status = "fulfilled"
    /\ Returned

\* C18: the text of a tool that lists tasks has, for every task of the
\* result, the line of its content and id, a priority line with the label
\* Low, Medium or High for the priorities 2, 3 and 4, and the same lines for
\* the same task whichever adapter lists it (the project id under
\* "Project ID: "); no line is rendered for an empty description.
C18_TaskFormat ==
    TasksListed =>
        LET tasks == awaited.value[1]
            text == EnvText(resp[1].value)
            label == [p \in 2..4 |-> CASE p = 2 -> "Low" [] p = 3 -> "Medium"
                                          [] p = 4 -> "High"]
        IN \A i \in 1..Len(tasks) :
              LET t == tasks[i]
              IN /\ <<"* ", t.content, " (ID: ", t.id, ")">> \in Range(text)
                 /\ t.priority \in 2..4 =>
                       <<"  Priority: ", label[t.priority]>> \in Range(text)
                 /\ Truthy(t, "projectId") =>
                       <<"  Project ID: ", t.projectId>> \in Range(text)
                 /\ <<"  Description: ", "">> \notin Range(text)


\* every call of the request is fulfilled, or one is rejected
CallsSettled ==
    \/ \A i \in 1..Len(calls) : calls[i].status = "fulfilled"
    \/ \E i \in 1..Len(calls) : calls[i].status = "rejected"

\* C19: a dispatch that made remote calls has a response only when all of
\* them are fulfilled or one is rejected; while the promise it awaits is
\* pending it stays suspended without a response (no timeout, no
\* cancellation); and when every remote call completes or fails, a suspended
\* dispatch ends with exactly one response.
C19_NoTimeout ==
    /\ []((Len(resp) > 0 /\ Len(calls) > 0) => CallsSettled)
    /\ [][(pc = "await" /\ awaited.status = "pending") =>
             (pc' = "await" /\ resp' = <<>> /\ req' = req)]_vars
    /\ (pc = "await") ~> (Done /\ Len(resp) = 1)

\* the daily view has answered after both of its queries were fulfilled
C19_Witness ==
    /\ Done /\ IsDailyReq /\ Len(resp) = 1
    /\ \A i \in 1..2 : calls[i].status = "fulfilled"


\* the first part of the text of a refused close, reopen or delete
FailedPrefix ==
    [ todoist_close_task |-> "Failed to complete task ",
      todoist_reopen_task |-> "Failed to reopen task ",
      todoist_delete_task |-> "Failed to delete task " ]

\* C20: when close_task, reopen_task or delete_task has ended, a remote call
\* that completed with the result false is answered by the one-line text
\* "Failed to ... task <task_id>" in an envelope without the isError flag,
\* and the envelope is flagged isError exactly when the remote call raised.
C20_FalseResultNotError ==
    (Done /\ req.kind = "tool" /\ req.name \in DOMAIN FailedPrefix) =>
        /\ Returned
        /\ IsError(resp[1].value) <=> (calls[1].status = "rejected")
        /\ (calls[1].status = "fulfilled" /\ calls[1].value = FALSE) =>
              EnvText(resp[1].value)
                 = << <<FailedPrefix[req.name], req.args.task_id>> >>
        /\ (calls[1].status = "fulfilled" /\ calls[1].value = TRUE) =>
              ~\E i \in 1..Len(EnvText(resp[1].value)) :
                  EnvText(resp[1].value)[i][1] = FailedPrefix[req.name]

\* the remote client answered false to a delete
C20_Witness ==
    /\ Done /\ req.kind = "tool" /\ req.name = "todoist_delete_task"
    /\ calls[1].status = "fulfilled" /\ calls[1].value = FALSE
    /\ Returned /\ ~IsError(resp[1].value)


\* the lines of the document that list a task
ItemLines(doc) == { i \in 1..Len(doc) : Len(doc[i]) = 2 /\ doc[i][1] = "- " }

\* C21: the total line of a weekly document rendered from a non-empty
\* "7 days" result gives the number of tasks of the result, those without a
\* due date included, while the date sections list only the tasks with a due
\* date: the total exceeds the number of task lines by the number of tasks
\* without a due date, and a result whose tasks all lack a due date gives no
\* date section and the total of the whole result.
C21_WeeklyTotalCountsAll ==
    (WeeklyRendered /\ awaited.value[1] # <<>>) =>
        LET weekTasks == awaited.value[1]
            doc == DocText
            undated == { i \in 1..Len(weekTasks) : "due" \notin DOMAIN weekTasks[i] }
        IN /\ \E i \in TotalLines(doc) : doc[i][2] = ToString(Len(weekTasks))
           /\ Cardinality(ItemLines(doc)) + Cardinality(undated) = Len(weekTasks)
           /\ Cardinality(undated) = Len(weekTasks) =>
                 /\ SectionDates(doc) = <<>>
                 /\ ItemLines(doc) = {}
                 /\ doc[Len(doc)][2] # "0"

\* two tasks without a due date: no date section and a total of 2
C21_Witness ==
    /\ WeeklyRendered
    /\ awaited.value[1] = <<TaskC, TaskC>>
    /\ SectionDates(DocText) = <<>>
    /\ DocText[Len(DocText)] = <<"**Total this week:** ", "2", " tasks">>

============================================================================
